---------------------------- MODULE Spec2Model ----------------------------
(***************************************************************************)
(* One decode pass of rotki's transaction decoder over one receipt, with   *)
(* the Illuvium v1 decoder (IlluviumDecoder._decode_illuvium_v1_events of  *)
(* rotkehlchen/chain/ethereum/modules/illuvium/decoder.py) as the decode   *)
(* function under study.                                                   *)
(*                                                                         *)
(* Python's 0-based topics[i] is Topic(tx_log, i) here; the 32-byte words  *)
(* of tx_log.data are the elements of a sequence of integers.  A Decimal   *)
(* (FVal) is the pair [coef, exp] standing for coef * 10^exp, as in        *)
(* Python's decimal module.                                                *)
(***************************************************************************)
EXTENDS Integers, Sequences, FiniteSets, TLC

VARIABLES
    decoded_events,   \* the orchestrator's mutable list of decoded events
    logs,             \* the logs of the receipt processed so far, in order
    next_log_index,   \* log_index of the next log of the receipt
    events_before,    \* decoded_events as it was before the last log was processed
    last_call,        \* how the last decode function call ended
    pc,               \* "decoding" while logs are processed, then "done"
    output,           \* what decode() returned, once pc = "done"
    scaled            \* a raw amount, a number of decimals and, once computed,
                      \* the normalized amount (used by ScalingSpec only)

vars ==
    <<decoded_events, logs, next_log_index, events_before, last_call, pc, output, scaled>>

-----------------------------------------------------------------------------
(* Bounds of the model *)

MaxLogs == 3

\* raw amounts 0..MaxRaw are normalized in ScalingSpec
MaxRaw == 120

-----------------------------------------------------------------------------
(* Constants of the program *)

ILV_ETH_CORE_POOL_V1 == "0x8B4d8443a0229349A9892D4F7CbE89eF5f843F72"
ILV_CORE_POOL_V1 == "0x25121EDDf746c884ddE4619b573A7B10714E2a36"
ILV_CORE_POOL_V1_STAKING == "0x5dac0c1b1112564a045ba943c9d50270893e8e826c49be8e7073adc713ab7bd7"
ILV_CORE_POOL_V1_UNSTAKING == "0xd8654fcc8cf5b36d30b3f5e4688fc78118e6d68de60b9994e09902268b57c3e3"
ILV_CORE_POOL_V1_CLAIM == "0x5033fdcf01566fb38fe1493114b856ff2a5d1c7875a6fafdacd1d320a012806a"
\* a signature the Illuvium decoder does not know (LogClaim of the sILV2 contract)
LOG_CLAIM_V2 == "0x51223fdc0a25891366fb358b4af9fe3c381b1566e287c61a29d01c8a173fe4f4"

CPT_ILLUVIUM == "illuvium"
CPT_GAS == "gas"

A_ETH == "ETH"
A_ILV == "eip155:1/erc20:0x767FE9EDC9E0dF98E07454847909b5E959D7ca0E"
A_SILV_V1 == "eip155:1/erc20:0x398AeA1c9ceb7dE800284bb399A15e0Efe5A9EC2"
A_SLP_ILV_ETH == "eip155:1/erc20:0x6a091a3406E0073C3CD6340122143009aDac0EDa"
A_SILV_V2 == "eip155:1/erc20:0x7E77dCb127F99ECe88230a64Db8d595F31F1b068"

ZERO_ADDRESS == "0x0000000000000000000000000000000000000000"
TEST_USER_ADDRESS == "0xDf22269fD88318FB13956b6329BB5959AA06181d"
OTHER_ADDRESS == "0x28e99f920d0c52727b45e7aa535786cda5c9ac67"

\* decimals of ILV, sILV and the SLP token (and of ETH)
TOKEN_DECIMALS == 18

\* BaseDecoderTools.sequence_offset once the fee event took sequence index 0
SEQUENCE_OFFSET == 1

\* Asset.symbol_or_name()
symbol_or_name(asset) ==
    CASE asset = A_ILV -> "ILV"
      [] asset = A_SILV_V1 -> "sILV"
      [] asset = A_SLP_ILV_ETH -> "SLP"
      [] asset = A_SILV_V2 -> "sILV2"
      [] OTHER -> "ETH"

-----------------------------------------------------------------------------
(* Exact decimals: FVal / decimal.Decimal *)

RECURSIVE Pow10(_)
Pow10(k) == IF k = 0 THEN 1 ELSE 10 * Pow10(k - 1)

RECURSIVE NumDigits(_)
NumDigits(n) == IF n < 10 THEN 1 ELSE 1 + NumDigits(n \div 10)

RECURSIVE Zeros(_)
Zeros(k) == IF k <= 0 THEN "" ELSE "0" \o Zeros(k - 1)

\* Decimal division by a power of ten: the quotient is exact, and trailing
\* zeros of the coefficient are dropped up to the ideal exponent 0
RECURSIVE DivPow10(_, _)
DivPow10(coef, exp) ==
    IF exp < 0 /\ coef % 10 = 0
    THEN DivPow10(coef \div 10, exp + 1)
    ELSE [coef |-> coef, exp |-> exp]

\* rotkehlchen.chain.ethereum.utils.asset_normalized_value:
\* amount / 10 ** asset.decimals
asset_normalized_value(amount, decimals) == DivPow10(amount, 0 - decimals)

\* str(FVal) = Decimal.__str__: plain notation, or scientific notation when
\* the value has more than six leading fractional zeros
DecimalStr(d) ==
    LET digits == ToString(d.coef)
        n == NumDigits(d.coef)
        leftdigits == d.exp + n
        dotplace == IF d.exp <= 0 /\ leftdigits > -6 THEN leftdigits ELSE 1
        low == IF dotplace >= n THEN 0 ELSE d.coef % Pow10(n - dotplace)
        intpart == IF dotplace <= 0 THEN "0"
                   ELSE IF dotplace >= n THEN digits \o Zeros(dotplace - n)
                   ELSE ToString(d.coef \div Pow10(n - dotplace))
        fracpart == IF dotplace <= 0 THEN "." \o Zeros(0 - dotplace) \o digits
                    ELSE IF dotplace >= n THEN ""
                    ELSE "." \o Zeros(n - dotplace - NumDigits(low)) \o ToString(low)
        e == leftdigits - dotplace
        exppart == IF e = 0 THEN ""
                   ELSE IF e > 0 THEN "E+" \o ToString(e)
                   ELSE "E-" \o ToString(0 - e)
    IN  intpart \o fracpart \o exppart

ZERO == [coef |-> 0, exp |-> 0]

\* Balance(amount=...): usd_value defaults to ZERO
Balance(amount) == [amount |-> amount, usd_value |-> ZERO]

-----------------------------------------------------------------------------
(* rotkehlchen.utils.misc helpers, as the decoder uses them *)

\* topics[i], 0-based; the caller checks HasTopic first (IndexError otherwise)
Topic(tx_log, i) == tx_log.topics[i + 1]
HasTopic(tx_log, i) == i + 1 <= Len(tx_log.topics)

\* hex_or_bytes_to_address: the low 20 bytes of a 32-byte topic
hex_or_bytes_to_address(topic) == topic.addr

\* tx_log.data[32*k : 32*(k+1)]: the k-th word, or the empty byte string when
\* the data is shorter (a Python slice never fails)
DataSlice(tx_log, k) ==
    IF k + 1 <= Len(tx_log.data) THEN <<tx_log.data[k + 1]>> ELSE <<>>

\* hex_or_bytes_to_int: int.from_bytes(value, 'big'), 0 for the empty string
hex_or_bytes_to_int(bytes) == IF bytes = <<>> THEN 0 ELSE bytes[1]

\* ts_sec_to_ms
ts_sec_to_ms(ts) == ts * 1000

\* BaseDecoderTools.get_sequence_index
get_sequence_index(tx_log) == SEQUENCE_OFFSET + tx_log.log_index

-----------------------------------------------------------------------------
(* Decoded events *)

\* HistoryBaseEntry(...): event_subtype, counterparty, notes and extra_data
\* are given by the caller
HistoryBaseEntry(event_identifier, sequence_index, timestamp, location_label, asset, balance, event_type, event_subtype, counterparty, notes, extra_data) ==
    [event_identifier |-> event_identifier,
     sequence_index |-> sequence_index,
     timestamp |-> timestamp,
     location |-> "blockchain",
     location_label |-> location_label,
     asset |-> asset,
     balance |-> balance,
     event_type |-> event_type,
     event_subtype |-> event_subtype,
     counterparty |-> counterparty,
     notes |-> notes,
     extra_data |-> extra_data]

\* extra_data=None
NoExtraData == <<>>

-----------------------------------------------------------------------------
(* IlluviumDecoder *)

\* mutant: a value that is no pool address is used as the label itself
poolname_for_counterparty_NoFallback(counterparty) ==
    IF counterparty = ILV_ETH_CORE_POOL_V1 THEN "ILV/ETH"
    ELSE IF counterparty = ILV_CORE_POOL_V1 THEN "ILV"
    ELSE counterparty

poolname_for_counterparty(counterparty) ==
    IF counterparty = ILV_ETH_CORE_POOL_V1 THEN "ILV/ETH"
    ELSE IF counterparty = ILV_CORE_POOL_V1 THEN "ILV"
    ELSE "Unknown"

\* the outcome of one statement block on one event: the event as it is left,
\* and whether an exception was raised
Ok(event) == [raised |-> FALSE, event |-> event]
Raised(event) == [raised |-> TRUE, event |-> event]

\* mutant: the signature gate lets every log through
KnownSignature_Any(tx_log) == TRUE

\* the signature gate of the decode function
KnownSignature(tx_log) ==
    Topic(tx_log, 0) \in {ILV_CORE_POOL_V1_STAKING,
                          ILV_CORE_POOL_V1_UNSTAKING,
                          ILV_CORE_POOL_V1_CLAIM}

\* mutant: the first if of the loop tests the signature alone
StakeCondition_NoAsset(tx_log, event) ==
    Topic(tx_log, 0) = ILV_CORE_POOL_V1_STAKING

\* `a and b or c` of the first if of the loop
StakeCondition(tx_log, event) ==
    \/ (Topic(tx_log, 0) = ILV_CORE_POOL_V1_STAKING /\ event.asset = A_SLP_ILV_ETH)
    \/ event.asset = A_ILV

\* mutant: the pool name is looked up after counterparty was overwritten
StakePoolName_AfterOverwrite(event) == poolname_for_counterparty(CPT_ILLUVIUM)

\* the pool name of the stake note, read before counterparty is overwritten
StakePoolName(event) == poolname_for_counterparty(event.counterparty)

\* the first if of the loop body
StakeBlock(tx_log, event) ==
    IF ~StakeCondition(tx_log, event) THEN Ok(event)
    ELSE IF ~HasTopic(tx_log, 1) THEN Raised(event)
    ELSE
        LET pool_name == StakePoolName(event)
            user == hex_or_bytes_to_address(Topic(tx_log, 1))
            extra_data == [staked_amount |-> DecimalStr(event.balance.amount),
                           asset |-> symbol_or_name(event.asset)]
        IN  IF event.location_label = user /\ event.event_type = "SPEND"
            THEN Ok([event EXCEPT
                     !.event_type = "STAKING",
                     !.event_subtype = "DEPOSIT_ASSET",
                     !.counterparty = CPT_ILLUVIUM,
                     !.notes = "Stake " \o DecimalStr(event.balance.amount) \o " "
                               \o symbol_or_name(event.asset) \o " in the "
                               \o pool_name \o " pool",
                     !.extra_data = extra_data])
            ELSE Ok(event)

\* mutant: the second if of the loop matches the pool token only
UnstakeCondition_SlpOnly(tx_log, event) ==
    Topic(tx_log, 0) = ILV_CORE_POOL_V1_UNSTAKING /\ event.asset = A_SLP_ILV_ETH

\* `a and b or c` of the second if of the loop
UnstakeCondition(tx_log, event) ==
    \/ (Topic(tx_log, 0) = ILV_CORE_POOL_V1_UNSTAKING /\ event.asset = A_SLP_ILV_ETH)
    \/ event.asset = A_ILV

\* the second if of the loop body
UnstakeBlock(tx_log, event) ==
    IF ~UnstakeCondition(tx_log, event) THEN Ok(event)
    ELSE IF ~HasTopic(tx_log, 1) THEN Raised(event)
    ELSE
        LET pool_name == poolname_for_counterparty(event.counterparty)
            user == hex_or_bytes_to_address(Topic(tx_log, 1))
            extra_data == [unstaked_amount |-> DecimalStr(event.balance.amount),
                           asset |-> symbol_or_name(event.asset)]
        IN  IF event.location_label = user /\ event.event_type = "RECEIVE"
            THEN Ok([event EXCEPT
                     !.event_type = "STAKING",
                     !.event_subtype = "REMOVE_ASSET",
                     !.counterparty = CPT_ILLUVIUM,
                     !.notes = "Unstake " \o DecimalStr(event.balance.amount) \o " "
                               \o symbol_or_name(event.asset) \o " from the "
                               \o pool_name \o " pool",
                     !.extra_data = extra_data])
            ELSE Ok(event)

\* mutant: the claim loop matches ILV events instead of sILV events
ClaimCondition_WrongAsset(tx_log, event) ==
    Topic(tx_log, 0) = ILV_CORE_POOL_V1_CLAIM /\ event.asset = A_ILV

\* the condition of the third if of the loop
ClaimCondition(tx_log, event) ==
    Topic(tx_log, 0) = ILV_CORE_POOL_V1_CLAIM /\ event.asset = A_SILV_V1

\* mutant: the claim also moves the sILV event to the claim log's position
ClaimBlock_Moved(tx_log, event) ==
    IF ~ClaimCondition(tx_log, event) THEN Ok(event)
    ELSE Ok([event EXCEPT
             !.event_type = "RECEIVE",
             !.event_subtype = "REWARD",
             !.counterparty = CPT_ILLUVIUM,
             !.sequence_index = tx_log.log_index])

\* the third if of the loop body
ClaimBlock(tx_log, event) ==
    IF ~ClaimCondition(tx_log, event) THEN Ok(event)
    ELSE
        LET extra_data == [claimed_amount |-> DecimalStr(event.balance.amount),
                           asset |-> symbol_or_name(A_SILV_V1)]
        IN  Ok([event EXCEPT
                !.event_type = "RECEIVE",
                !.event_subtype = "REWARD",
                !.counterparty = CPT_ILLUVIUM,
                !.notes = "Claim " \o DecimalStr(event.balance.amount) \o " "
                          \o symbol_or_name(A_SILV_V1),
                !.extra_data = extra_data])

\* one iteration of `for event in decoded_events`: the three ifs in order; an
\* exception leaves the event as the blocks before it left it
LoopBody(tx_log, event) ==
    LET r1 == StakeBlock(tx_log, event) IN
    IF r1.raised THEN r1
    ELSE LET r2 == UnstakeBlock(tx_log, r1.event) IN
         IF r2.raised THEN r2
         ELSE ClaimBlock(tx_log, r2.event)

\* mutant: the scan stops after the first event it reclassifies
RECURSIVE ReclassifyLoop_FirstMatch(_, _, _)
ReclassifyLoop_FirstMatch(tx_log, events, i) ==
    IF i > Len(events) THEN [raised |-> FALSE, events |-> events]
    ELSE LET r == LoopBody(tx_log, events[i]) IN
         IF r.raised THEN [raised |-> TRUE, events |-> [events EXCEPT ![i] = r.event]]
         ELSE IF r.event # events[i]
         THEN [raised |-> FALSE, events |-> [events EXCEPT ![i] = r.event]]
         ELSE ReclassifyLoop_FirstMatch(tx_log, events, i + 1)

\* the loop over decoded_events from position i on: the events are mutated in
\* place, and an exception ends the loop with the earlier mutations kept
RECURSIVE ReclassifyLoop(_, _, _)
ReclassifyLoop(tx_log, events, i) ==
    IF i > Len(events) THEN [raised |-> FALSE, events |-> events]
    ELSE LET r == LoopBody(tx_log, events[i]) IN
         IF r.raised THEN [raised |-> TRUE, events |-> [events EXCEPT ![i] = r.event]]
         ELSE ReclassifyLoop(tx_log, [events EXCEPT ![i] = r.event], i + 1)

\* mutant: the flag is read with the opposite meaning
ClaimReturnsEarly_FlagZero(use_silv) == use_silv = 0

\* mutant: the early return of the sILV branch is lost
ClaimReturnsEarly_Never(use_silv) == FALSE

\* `if use_silv == 1: return None, []`
ClaimReturnsEarly(use_silv) == use_silv = 1

\* mutant: both appended events get the claim log's sequence index
ClaimSequenceIndices_Same(tx_log) ==
    <<get_sequence_index(tx_log), get_sequence_index(tx_log)>>

\* sequence indices of the two events a claim appends
ClaimSequenceIndices(tx_log) ==
    LET claim_sequence_idx == get_sequence_index(tx_log)
    IN  <<claim_sequence_idx, claim_sequence_idx + 1>>

\* mutant: the note names the pool that emitted the claim log
AutoStakePoolName_Emitter(tx_log) == poolname_for_counterparty(tx_log.address)

\* the pool named in the note of the stake event a claim appends:
\* self._poolname_for_counterparty(ILV_CORE_POOL_V1)
AutoStakePoolName(tx_log) == poolname_for_counterparty(ILV_CORE_POOL_V1)

\* the two events a claim log of ILV appends
ClaimedIlvEvents(tx_log, transaction, user_address, amount) ==
    LET idx == ClaimSequenceIndices(tx_log) IN
    << HistoryBaseEntry(
           transaction.tx_hash, idx[1], ts_sec_to_ms(transaction.timestamp),
           user_address, A_ILV, Balance(amount),
           "RECEIVE", "REWARD", CPT_ILLUVIUM,
           "Claim " \o DecimalStr(amount) \o " " \o symbol_or_name(A_ILV),
           [claimed_amount |-> DecimalStr(amount), asset |-> symbol_or_name(A_ILV)]),
       HistoryBaseEntry(
           transaction.tx_hash, idx[2], ts_sec_to_ms(transaction.timestamp),
           user_address, A_ILV, Balance(amount),
           "STAKING", "DEPOSIT_ASSET", CPT_ILLUVIUM,
           "Stake " \o DecimalStr(amount) \o " " \o symbol_or_name(A_ILV)
               \o " in the " \o AutoStakePoolName(tx_log) \o " pool",
           [staked_amount |-> DecimalStr(amount), asset |-> symbol_or_name(A_ILV)]) >>

\* mutant: the amount is read from the first word of the data
ClaimRawAmount_FirstWord(tx_log) == hex_or_bytes_to_int(DataSlice(tx_log, 0))

\* raw_amount = hex_or_bytes_to_int(tx_log.data[32:64])
ClaimRawAmount(tx_log) == hex_or_bytes_to_int(DataSlice(tx_log, 1))

\* mutant: the call registers an action item
ReturnNone_ActionItem == [event |-> <<>>, action_items |-> <<"action_item">>]

\* `return None, []`: no event handed back (the empty sequence stands for
\* None), no action item
ReturnNone == [event |-> <<>>, action_items |-> <<>>]

\* a call that ends at one of the three return statements: the list as it is
\* left, and the returned pair in ret
ReturnedCall(events) == [raised |-> FALSE, events |-> events, ret |-> <<ReturnNone>>]

\* a call that ends with an exception: the list as it is left, nothing returned
RaisedCall(events) == [raised |-> TRUE, events |-> events, ret |-> <<>>]

\* the statements after the loop
ClaimSynthesis(tx_log, transaction, events) ==
    IF Topic(tx_log, 0) # ILV_CORE_POOL_V1_CLAIM
    THEN ReturnedCall(events)
    ELSE IF ~HasTopic(tx_log, 1) THEN RaisedCall(events)
    ELSE
        LET user_address == hex_or_bytes_to_address(Topic(tx_log, 1))
            raw_amount == ClaimRawAmount(tx_log)
            amount == asset_normalized_value(raw_amount, TOKEN_DECIMALS)
            use_silv == hex_or_bytes_to_int(DataSlice(tx_log, 0))
        IN  IF ClaimReturnsEarly(use_silv)
            THEN ReturnedCall(events)
            ELSE ReturnedCall(events \o ClaimedIlvEvents(tx_log, transaction,
                                                         user_address, amount))

\* _decode_illuvium_v1_events: the events list as the call leaves it, whether
\* the call raised, and what it returned
decode_illuvium_v1_events(tx_log, transaction, events) ==
    IF ~KnownSignature(tx_log) THEN ReturnedCall(events)
    ELSE LET looped == ReclassifyLoop(tx_log, events, 1) IN
         IF looped.raised THEN RaisedCall(looped.events)
         ELSE ClaimSynthesis(tx_log, transaction, looped.events)

\* addresses_to_decoders
addresses_to_decoders == {ILV_ETH_CORE_POOL_V1, ILV_CORE_POOL_V1}

-----------------------------------------------------------------------------
(* The transaction, and the logs a receipt may hold *)

ERC20_TRANSFER == "0xddf252ad1be2c89b69c2b068fc378daa952ba7f163c4a11628f55a4df523b3ef"
SILV2_CLAIM_CONTRACT == "0xA904f27b1DE7e82Ba587677eE1f5af0AD0A8c79A"

\* the transaction of the pass (timestamp in seconds, gas in wei)
TEST_TRANSACTION ==
    [tx_hash |-> "0xaf722bd1b29ed59dc2648c051d46ff129535980b25fc86d9814f57c38db2a18a",
     timestamp |-> 1639307,
     from_address |-> TEST_USER_ADDRESS,
     gas_used |-> 239,
     gas_price |-> 40]

\* the accounts the user tracks (ethereum_accounts)
TrackedAccounts == {TEST_USER_ADDRESS}

\* a 32-byte topic holding an address: 12 bytes of padding, 20 of address
AddressTopic(addr) == [pad |-> 0, addr |-> addr]

EvmTxReceiptLog(log_index, address, topics, data) ==
    [log_index |-> log_index, address |-> address, topics |-> topics,
     data |-> data, removed |-> FALSE]

TokenContract(asset) ==
    CASE asset = A_ILV -> "0x767FE9EDC9E0dF98E07454847909b5E959D7ca0E"
      [] asset = A_SILV_V1 -> "0x398AeA1c9ceb7dE800284bb399A15e0Efe5A9EC2"
      [] asset = A_SLP_ILV_ETH -> "0x6a091a3406E0073C3CD6340122143009aDac0EDa"
      [] asset = A_SILV_V2 -> "0x7E77dCb127F99ECe88230a64Db8d595F31F1b068"

AssetOfContract(address) ==
    CHOOSE asset \in {A_ILV, A_SILV_V1, A_SLP_ILV_ETH, A_SILV_V2} :
        TokenContract(asset) = address

Pools == {ILV_ETH_CORE_POOL_V1, ILV_CORE_POOL_V1}

\* raw amounts of transfers and of claims (in units of 10^-18 token)
TransferRawAmounts == {1200}
ClaimRawAmounts == {50}

\* ERC-20 Transfer logs: SLP and ILV between the tracked user and a pool, and
\* sILV and sILV2 sent or minted to the user
TransferLogs(log_index) ==
    { EvmTxReceiptLog(log_index, TokenContract(asset),
                      <<ERC20_TRANSFER, AddressTopic(ft[1]), AddressTopic(ft[2])>>,
                      <<raw>>) :
        asset \in {A_ILV, A_SLP_ILV_ETH},
        ft \in ({TEST_USER_ADDRESS} \X Pools) \cup {<<ILV_CORE_POOL_V1, TEST_USER_ADDRESS>>},
        raw \in TransferRawAmounts }
    \cup
    { EvmTxReceiptLog(log_index, TokenContract(af[1]),
                      <<ERC20_TRANSFER, AddressTopic(af[2]),
                        AddressTopic(TEST_USER_ADDRESS)>>, <<raw>>) :
        af \in {<<A_SILV_V1, ZERO_ADDRESS>>, <<A_SILV_V1, ILV_CORE_POOL_V1>>,
                <<A_SILV_V2, ZERO_ADDRESS>>},
        raw \in TransferRawAmounts }

\* topics[1:] of a pool log: the user twice (as in the receipts of the tests)
UserTopics == { <<AddressTopic(u), AddressTopic(u)>> :
                  u \in {TEST_USER_ADDRESS, OTHER_ADDRESS} }

\* Staked and Unstaked logs, well-formed or without topics[1]
StakingLogs(log_index) ==
    { EvmTxReceiptLog(log_index, ILV_ETH_CORE_POOL_V1, <<sig>> \o t, <<1200>>) :
        sig \in {ILV_CORE_POOL_V1_STAKING, ILV_CORE_POOL_V1_UNSTAKING},
        t \in UserTopics \cup {<<>>} }

\* Claimed logs: of either pool for the tracked user, of the ILV/ETH pool for
\* another user; data is the flag word and the amount word
ClaimLogs(log_index) ==
    { EvmTxReceiptLog(log_index, pt[1], <<ILV_CORE_POOL_V1_CLAIM>> \o pt[2],
                      <<flag, raw>>) :
        pt \in { x \in Pools \X UserTopics :
                   x[2][1].addr = TEST_USER_ADDRESS \/ x[1] = ILV_ETH_CORE_POOL_V1 },
        flag \in {0, 1, 2}, raw \in ClaimRawAmounts }

\* Claimed logs without topics[1], or with no data
MalformedClaimLogs(log_index) ==
    { EvmTxReceiptLog(log_index, ILV_ETH_CORE_POOL_V1, <<ILV_CORE_POOL_V1_CLAIM>>,
                      <<flag, raw>>) : flag \in {0, 1}, raw \in ClaimRawAmounts }
    \cup
    { EvmTxReceiptLog(log_index, ILV_ETH_CORE_POOL_V1,
                      <<ILV_CORE_POOL_V1_CLAIM, AddressTopic(TEST_USER_ADDRESS),
                        AddressTopic(TEST_USER_ADDRESS)>>, <<>>) }

\* a log of a pool with a signature the decoder does not handle
OtherPoolLogs(log_index) ==
    { EvmTxReceiptLog(log_index, ILV_CORE_POOL_V1,
                      <<LOG_CLAIM_V2, AddressTopic(TEST_USER_ADDRESS)>>, <<1200>>) }

\* logs emitted by one of the two pool contracts
PoolLogs(log_index) ==
    StakingLogs(log_index) \cup ClaimLogs(log_index)
        \cup MalformedClaimLogs(log_index) \cup OtherPoolLogs(log_index)

\* a log of a contract no decoder claims
UnclaimedLogs(log_index) ==
    { EvmTxReceiptLog(log_index, SILV2_CLAIM_CONTRACT,
                      <<LOG_CLAIM_V2, AddressTopic(OTHER_ADDRESS)>>, <<1200>>) }

\* the tag, the contract and the two log signatures of a decoder module of
\* another protocol
CPT_UNRELATED == "unrelated-protocol"
UNRELATED_CONTRACT == "unrelated-protocol:contract"
UNRELATED_DEPOSIT == "unrelated-protocol:Deposit(user,token,amount)"
UNRELATED_WITHDRAW == "unrelated-protocol:Withdraw(user,token,amount)"

\* logs of the other protocol: the user deposits ILV into it, or withdraws ILV
\* or sILV from it
UnrelatedLogs(log_index) ==
    { EvmTxReceiptLog(log_index, UNRELATED_CONTRACT,
                      <<st[1], AddressTopic(TEST_USER_ADDRESS),
                        AddressTopic(TokenContract(st[2]))>>, <<raw>>) :
        st \in {<<UNRELATED_DEPOSIT, A_ILV>>, <<UNRELATED_WITHDRAW, A_ILV>>,
                <<UNRELATED_WITHDRAW, A_SILV_V1>>},
        raw \in TransferRawAmounts }

-----------------------------------------------------------------------------
(* The orchestrator: EthereumTransactionDecoder.decode_transaction *)

\* the fee event, created before the logs are decoded
FeeEvent(transaction) ==
    LET amount == asset_normalized_value(transaction.gas_used * transaction.gas_price,
                                         TOKEN_DECIMALS)
    IN  HistoryBaseEntry(
            transaction.tx_hash, 0, ts_sec_to_ms(transaction.timestamp),
            transaction.from_address, A_ETH, Balance(amount),
            "SPEND", "FEE", CPT_GAS,
            "Burned " \o DecimalStr(amount) \o " ETH for gas", NoExtraData)

\* the generic decoding of an ERC-20 Transfer log: a SPEND of the tracked
\* sender or a RECEIVE of the tracked receiver, the other side as counterparty
TransferEvents(tx_log, transaction) ==
    LET from == hex_or_bytes_to_address(Topic(tx_log, 1))
        to == hex_or_bytes_to_address(Topic(tx_log, 2))
        asset == AssetOfContract(tx_log.address)
        amount == asset_normalized_value(hex_or_bytes_to_int(DataSlice(tx_log, 0)),
                                         TOKEN_DECIMALS)
        text == DecimalStr(amount) \o " " \o symbol_or_name(asset)
                \o " from " \o from \o " to " \o to
    IN  IF from \in TrackedAccounts
        THEN << HistoryBaseEntry(
                    transaction.tx_hash, get_sequence_index(tx_log),
                    ts_sec_to_ms(transaction.timestamp), from, asset, Balance(amount),
                    "SPEND", "NONE", to, "Send " \o text, NoExtraData) >>
        ELSE IF to \in TrackedAccounts
        THEN << HistoryBaseEntry(
                    transaction.tx_hash, get_sequence_index(tx_log),
                    ts_sec_to_ms(transaction.timestamp), to, asset, Balance(amount),
                    "RECEIVE", "NONE", from, "Receive " \o text, NoExtraData) >>
        ELSE <<>>

\* the event a decode function handed back, which the orchestrator appends to
\* the list: none when the function raised or returned None
ReturnedEvent(ret) == IF ret = <<>> THEN <<>> ELSE ret[1].event

\* mutant: the uniqueness of the sequence indices is not verified
\* the decode function of the other protocol's module: one event of the user,
\* tagged with that protocol
UnrelatedEvents(tx_log, transaction) ==
    LET user == hex_or_bytes_to_address(Topic(tx_log, 1))
        asset == AssetOfContract(hex_or_bytes_to_address(Topic(tx_log, 2)))
        amount == asset_normalized_value(hex_or_bytes_to_int(DataSlice(tx_log, 0)),
                                         TOKEN_DECIMALS)
        deposit == Topic(tx_log, 0) = UNRELATED_DEPOSIT
    IN  << HistoryBaseEntry(
               transaction.tx_hash, get_sequence_index(tx_log),
               ts_sec_to_ms(transaction.timestamp), user, asset, Balance(amount),
               IF deposit THEN "SPEND" ELSE "RECEIVE", "NONE", CPT_UNRELATED,
               (IF deposit THEN "Deposit " ELSE "Withdraw ")
                   \o DecimalStr(amount) \o " " \o symbol_or_name(asset),
               NoExtraData) >>

HasDuplicateSequenceIndex_Unverified(events) == FALSE

HasDuplicateSequenceIndex(events) ==
    \E i, j \in 1..Len(events) : i < j /\ events[i].sequence_index = events[j].sequence_index

\* sorted(events, key=sequence_index): a stable insertion sort
RECURSIVE InsertBySequenceIndex(_, _)
InsertBySequenceIndex(sorted, event) ==
    IF sorted = <<>> THEN <<event>>
    ELSE IF sorted[Len(sorted)].sequence_index <= event.sequence_index
    THEN Append(sorted, event)
    ELSE Append(InsertBySequenceIndex(SubSeq(sorted, 1, Len(sorted) - 1), event),
                sorted[Len(sorted)])

RECURSIVE SortBySequenceIndex(_)
SortBySequenceIndex(events) ==
    IF events = <<>> THEN <<>>
    ELSE InsertBySequenceIndex(SortBySequenceIndex(SubSeq(events, 1, Len(events) - 1)),
                               events[Len(events)])

-----------------------------------------------------------------------------
(* The state machine *)

FirstLogIndices == {420}

Init ==
    /\ decoded_events = <<FeeEvent(TEST_TRANSACTION)>>
    /\ logs = <<>>
    /\ next_log_index \in FirstLogIndices
    /\ events_before = <<>>
    /\ last_call = "none"
    /\ pc = "decoding"
    /\ output = <<>>
    /\ scaled = <<>>

MoreLogs == pc = "decoding" /\ Len(logs) < MaxLogs

\* a Transfer log of a token: the generic transfer decoding appends its event
DecodeTransferLog ==
    /\ MoreLogs
    /\ \E tx_log \in TransferLogs(next_log_index) :
        /\ decoded_events' = decoded_events \o TransferEvents(tx_log, TEST_TRANSACTION)
        /\ logs' = Append(logs, tx_log)
    /\ next_log_index' = next_log_index + 1
    /\ events_before' = decoded_events
    /\ last_call' = "transfer"
    /\ UNCHANGED <<pc, output, scaled>>

\* a log of a pool contract: addresses_to_decoders sends it to
\* _decode_illuvium_v1_events; a call that raises counts as (None, []), and
\* the pass goes on with the list as the call left it
DecodePoolLog ==
    /\ MoreLogs
    /\ \E tx_log \in PoolLogs(next_log_index) :
        /\ tx_log.address \in addresses_to_decoders
        /\ \E r \in {decode_illuvium_v1_events(tx_log, TEST_TRANSACTION, decoded_events)} :
               /\ decoded_events' = r.events \o ReturnedEvent(r.ret)
               /\ last_call' = IF r.raised THEN "raised" ELSE "returned"
        /\ logs' = Append(logs, tx_log)
    /\ next_log_index' = next_log_index + 1
    /\ events_before' = decoded_events
    /\ UNCHANGED <<pc, output, scaled>>

\* a log of a contract another module claims: that module's decode function
\* appends its event
DecodeUnrelatedLog ==
    /\ MoreLogs
    /\ \E tx_log \in UnrelatedLogs(next_log_index) :
        /\ tx_log.address \notin addresses_to_decoders
        /\ decoded_events' = decoded_events \o UnrelatedEvents(tx_log, TEST_TRANSACTION)
        /\ logs' = Append(logs, tx_log)
    /\ next_log_index' = next_log_index + 1
    /\ events_before' = decoded_events
    /\ last_call' = "unrelated"
    /\ UNCHANGED <<pc, output, scaled>>

\* a log of a contract without a decoder: nothing is decoded
SkipUnclaimedLog ==
    /\ MoreLogs
    /\ \E tx_log \in UnclaimedLogs(next_log_index) :
        /\ tx_log.address \notin addresses_to_decoders
        /\ logs' = Append(logs, tx_log)
    /\ next_log_index' = next_log_index + 1
    /\ events_before' = decoded_events
    /\ last_call' = "skipped"
    /\ UNCHANGED <<decoded_events, pc, output, scaled>>

\* the end of the receipt: the events are checked for unique sequence
\* indices and returned in ascending order of sequence index
EndOfReceipt ==
    /\ pc = "decoding"
    /\ IF HasDuplicateSequenceIndex(decoded_events)
       THEN pc' = "failed" /\ output' = <<>>
       ELSE pc' = "done" /\ output' = SortBySequenceIndex(decoded_events)
    /\ UNCHANGED <<decoded_events, logs, next_log_index, events_before, last_call, scaled>>

Next ==
    \/ DecodeTransferLog
    \/ DecodePoolLog
    \/ DecodeUnrelatedLog
    \/ SkipUnclaimedLog
    \/ EndOfReceipt

Spec == Init /\ [][Next]_vars

-----------------------------------------------------------------------------
(* Scaling: asset_normalized_value on a range of raw amounts and decimals,
   and the decode of a Claimed log that carries the same raw amount *)

ScalingInit ==
    /\ decoded_events = <<FeeEvent(TEST_TRANSACTION)>>
    /\ logs = <<>>
    /\ next_log_index \in FirstLogIndices
    /\ events_before = <<>>
    /\ last_call = "none"
    /\ pc = "scaling"
    /\ output = <<>>
    /\ scaled \in [raw : 0..MaxRaw, decimals : 0..TOKEN_DECIMALS, amount : {<<>>}]

\* asset_normalized_value for a token of scaled.decimals decimals
NormalizeAmount ==
    /\ pc = "scaling"
    /\ scaled.amount = <<>>
    /\ scaled' = [scaled EXCEPT
                   !.amount = <<asset_normalized_value(scaled.raw, scaled.decimals)>>]
    /\ UNCHANGED <<decoded_events, logs, next_log_index, events_before, last_call,
                   pc, output>>

\* a Claimed log of the ILV pool with flag word 0 and amount word scaled.raw
DecodeClaimOfAmount ==
    /\ pc = "scaling"
    /\ logs = <<>>
    /\ LET tx_log == EvmTxReceiptLog(next_log_index, ILV_CORE_POOL_V1,
                                     <<ILV_CORE_POOL_V1_CLAIM,
                                       AddressTopic(TEST_USER_ADDRESS),
                                       AddressTopic(TEST_USER_ADDRESS)>>,
                                     <<0, scaled.raw>>)
       IN  /\ tx_log.address \in addresses_to_decoders
           /\ \E r \in {decode_illuvium_v1_events(tx_log, TEST_TRANSACTION,
                                                  decoded_events)} :
                  /\ decoded_events' = r.events \o ReturnedEvent(r.ret)
                  /\ last_call' = IF r.raised THEN "raised" ELSE "returned"
           /\ logs' = Append(logs, tx_log)
    /\ next_log_index' = next_log_index + 1
    /\ events_before' = decoded_events
    /\ UNCHANGED <<pc, output, scaled>>

ScalingNext ==
    \/ NormalizeAmount
    \/ DecodeClaimOfAmount

ScalingSpec == ScalingInit /\ [][ScalingNext]_vars

-----------------------------------------------------------------------------
(* Vocabulary of the properties *)

LastLog == logs[Len(logs)]

IsTransferLog(l) == Topic(l, 0) = ERC20_TRANSFER
TransferFrom(l) == Topic(l, 1).addr
TransferTo(l) == Topic(l, 2).addr
TransferRaw(l) == l.data[1]

IsPoolLog(l, sig) == l.address \in Pools /\ Topic(l, 0) = sig
IsStakedLog(l) == IsPoolLog(l, ILV_CORE_POOL_V1_STAKING)
IsUnstakedLog(l) == IsPoolLog(l, ILV_CORE_POOL_V1_UNSTAKING)
IsClaimedLog(l) == IsPoolLog(l, ILV_CORE_POOL_V1_CLAIM)

\* a Claimed log with topics[1] and both data words, and its fields
IsFullClaimedLog(l) == IsClaimedLog(l) /\ Len(l.topics) >= 2 /\ Len(l.data) >= 2
ClaimFlag(l) == l.data[1]
ClaimRaw(l) == l.data[2]
NamesUser(l, user) == Len(l.topics) >= 2 /\ Topic(l, 1).addr = user

IsFeeEvent(e) == e.event_type = "SPEND" /\ e.event_subtype = "FEE"
NonFeeEvents(events) == { i \in 1..Len(events) : ~IsFeeEvent(events[i]) }

\* amount = raw / 10^18, stated on the integers: amount * 10^18 = raw
IsRawOver18(amount, raw) ==
    /\ amount.exp <= 0
    /\ amount.exp >= -18
    /\ amount.coef * Pow10(amount.exp + 18) = raw

\* T of the no-double-counting property: SLP or ILV between the user and a
\* pool, or sILV minted to the user
IsCorrelatedTransfer(l, user) ==
    /\ IsTransferLog(l)
    /\ \/ /\ l.address \in {TokenContract(A_SLP_ILV_ETH), TokenContract(A_ILV)}
          /\ \/ TransferFrom(l) = user /\ TransferTo(l) \in Pools
             \/ TransferTo(l) = user /\ TransferFrom(l) \in Pools
       \/ /\ l.address = TokenContract(A_SILV_V1)
          /\ TransferFrom(l) = ZERO_ADDRESS /\ TransferTo(l) = user

\* P of the no-double-counting property
IsCorrelatingPoolLog(l, user) ==
    /\ NamesUser(l, user)
    /\ \/ IsStakedLog(l)
       \/ IsUnstakedLog(l)
       \/ IsFullClaimedLog(l) /\ ClaimFlag(l) = 1

TransferThenPoolLog ==
    /\ Len(logs) = 2
    /\ IsCorrelatedTransfer(logs[1], TEST_USER_ADDRESS)
    /\ IsCorrelatingPoolLog(logs[2], TEST_USER_ADDRESS)

-----------------------------------------------------------------------------
(* Properties *)

\* C1: no double counting.  For a receipt whose logs are a transfer T (SLP or
\* ILV between the user and a pool, or sILV minted to the user) followed by a
\* pool log P (Staked, Unstaked, or Claimed with flag 1) naming the same user,
\* the events list and the output of decode hold the fee event and exactly
\* one other event, the one of the transfer; decode does not fail.
C1_NoDoubleCounting ==
    TransferThenPoolLog =>
        /\ Len(decoded_events) = 2
        /\ Cardinality(NonFeeEvents(decoded_events)) = 1
        /\ decoded_events[2].asset = AssetOfContract(logs[1].address)
        /\ pc # "failed"
        /\ pc = "done" =>
            /\ Len(output) = 2
            /\ Cardinality(NonFeeEvents(output)) = 1

C1_Witness ==
    /\ TransferThenPoolLog
    /\ pc = "done"
    /\ IsFullClaimedLog(logs[2])
    /\ logs[1].address = TokenContract(A_SILV_V1)
    /\ output[2].event_subtype = "REWARD"

\* C2: ILV claim synthesis.  A Claimed log of either pool with flag word 0 and
\* amount word R, processed on a list holding only the fee event, appends
\* exactly two events with sequence indices log_index + 1 and log_index + 2:
\* RECEIVE/REWARD, then STAKING/DEPOSIT_ASSET, both of asset ILV, with
\* location_label the address of topics[1], counterparty illuvium,
\* event_identifier the transaction hash and amount R / 10^18.
C2_IlvClaimSynthesis ==
    (Len(logs) = 1 /\ IsFullClaimedLog(logs[1]) /\ ClaimFlag(logs[1]) = 0) =>
        /\ Len(decoded_events) = 3
        /\ IsFeeEvent(decoded_events[1])
        /\ decoded_events[2].event_type = "RECEIVE"
        /\ decoded_events[2].event_subtype = "REWARD"
        /\ decoded_events[3].event_type = "STAKING"
        /\ decoded_events[3].event_subtype = "DEPOSIT_ASSET"
        /\ decoded_events[2].sequence_index = logs[1].log_index + 1
        /\ decoded_events[3].sequence_index = logs[1].log_index + 2
        /\ \A i \in {2, 3} :
            /\ decoded_events[i].asset = A_ILV
            /\ decoded_events[i].location_label = Topic(logs[1], 1).addr
            /\ decoded_events[i].counterparty = "illuvium"
            /\ decoded_events[i].event_identifier = TEST_TRANSACTION.tx_hash
            /\ IsRawOver18(decoded_events[i].balance.amount, ClaimRaw(logs[1]))
        /\ decoded_events[2].balance = decoded_events[3].balance

C2_Witness ==
    /\ Len(logs) = 1
    /\ IsFullClaimedLog(logs[1])
    /\ ClaimFlag(logs[1]) = 0
    /\ logs[1].address = ILV_CORE_POOL_V1
    /\ Len(decoded_events) = 3
    /\ decoded_events[3].sequence_index = 422
    /\ decoded_events[2].notes = "Claim 5E-17 ILV"

\* the sILV events of the list, and the shape the sILV branch of a claim gives
\* an event
IsSilvRewardEvent(e) ==
    /\ e.asset = A_SILV_V1
    /\ e.event_type = "RECEIVE"
    /\ e.event_subtype = "REWARD"
    /\ e.counterparty = "illuvium"

\* positions i < j of the receipt: a transfer of sILV to the user, and a later
\* Claimed log with flag word 1
SilvTransferThenClaim(i, j) ==
    /\ i < j
    /\ IsTransferLog(logs[i])
    /\ logs[i].address = TokenContract(A_SILV_V1)
    /\ TransferTo(logs[i]) = TEST_USER_ADDRESS
    /\ IsFullClaimedLog(logs[j])
    /\ ClaimFlag(logs[j]) = 1

\* the events of a list that come from the log at log_index k
\* (the transfer decoder gives its event the sequence index k + 1)
EventsOfTransfer(events, l) ==
    { n \in 1..Len(events) :
        /\ events[n].sequence_index = l.log_index + 1
        /\ events[n].asset = AssetOfContract(l.address) }

\* every log of the receipt other than those at i and j is one no decoder
\* handles, so that it yields no event
OnlyLogsWithEvents(i, j) ==
    \A k \in 1..Len(logs) :
        k \notin {i, j} => logs[k] \in UnclaimedLogs(logs[k].log_index)

\* C3 as stated: for every receipt with a transfer of R units of sILV to the
\* user and a later Claimed log with flag word 1 (and no other log that yields
\* an event), decoding yields exactly one non-fee event, RECEIVE/REWARD of sILV
\* with counterparty illuvium and amount R / 10^18, whose sequence_index is
\* the claim log's index.
C3_Original ==
    \A i, j \in 1..Len(logs) :
        (SilvTransferThenClaim(i, j) /\ OnlyLogsWithEvents(i, j)) =>
            /\ Cardinality(NonFeeEvents(decoded_events)) = 1
            /\ \A n \in NonFeeEvents(decoded_events) :
                /\ IsSilvRewardEvent(decoded_events[n])
                /\ IsRawOver18(decoded_events[n].balance.amount, TransferRaw(logs[i]))
                /\ decoded_events[n].sequence_index = logs[j].log_index

\* C3, amended: for every receipt with a transfer of R units of sILV to the
\* user at log_index k and a later Claimed log with flag word 1, the event of
\* that transfer is RECEIVE/REWARD of sILV with counterparty illuvium and
\* amount R / 10^18 and keeps sequence_index k + 1; that is the claim log's
\* index when the claim log directly follows the transfer, and when the two
\* are the only logs of the receipt it is the only non-fee event.
C3_SilvClaimCorrelation ==
    \A i, j \in 1..Len(logs) :
        SilvTransferThenClaim(i, j) =>
            /\ Cardinality(EventsOfTransfer(decoded_events, logs[i])) = 1
            /\ \A n \in EventsOfTransfer(decoded_events, logs[i]) :
                /\ IsSilvRewardEvent(decoded_events[n])
                /\ IsRawOver18(decoded_events[n].balance.amount, TransferRaw(logs[i]))
                /\ decoded_events[n].sequence_index = logs[i].log_index + 1
                /\ logs[j].log_index = logs[i].log_index + 1 =>
                       decoded_events[n].sequence_index = logs[j].log_index
            /\ Len(logs) = 2 =>
                /\ Cardinality(NonFeeEvents(decoded_events)) = 1
                /\ pc # "failed"
                /\ pc = "done" => /\ Len(output) = 2
                                  /\ IsSilvRewardEvent(output[2])
                                  /\ output[2].sequence_index = logs[2].log_index

C3_Witness ==
    /\ Len(logs) = 3
    /\ SilvTransferThenClaim(1, 3)
    /\ ~IsFullClaimedLog(logs[2])
    /\ pc = "done"
    /\ Len(output) = 2
    /\ IsSilvRewardEvent(output[2])
    /\ output[2].sequence_index = 421
    /\ logs[3].log_index = 422

\* the last log is a Claimed log with topics[1] and both data words
LastIsFullClaim == Len(logs) >= 1 /\ IsFullClaimedLog(LastLog)

\* C4: branch exclusivity.  A Claimed log with flag word 1 appends no event
\* (nothing of the ILV branch), and a Claimed log with flag word 0 leaves every
\* sILV event of the list as it was (nothing of the sILV branch), also when a
\* sILV transfer event precedes it.
C4_BranchExclusivity ==
    LastIsFullClaim =>
        /\ ClaimFlag(LastLog) = 1 => Len(decoded_events) = Len(events_before)
        /\ ClaimFlag(LastLog) = 0 =>
            \A n \in 1..Len(events_before) :
                events_before[n].asset = A_SILV_V1 =>
                    decoded_events[n] = events_before[n]

\* C5: sequence-index uniqueness.  No two events of the list have the same
\* sequence_index, and a decode never ends in a sequence collision.
C5_UniqueSequenceIndices ==
    /\ \A i, j \in 1..Len(decoded_events) :
        i < j => decoded_events[i].sequence_index # decoded_events[j].sequence_index
    /\ pc # "failed"

\* C6: unknown flag value.  A Claimed log whose flag word is neither 0 nor 1
\* appends no event and changes no event.
C6_UnknownFlagSkipped ==
    (LastIsFullClaim /\ ClaimFlag(LastLog) \notin {0, 1}) =>
        decoded_events = events_before

\* a log with one of the three signatures that lacks topics[1], or a Claimed
\* log whose data is shorter than the two words the handler reads
IsMalformedPoolLog(l) ==
    \/ /\ IsStakedLog(l) \/ IsUnstakedLog(l) \/ IsClaimedLog(l)
       /\ Len(l.topics) < 2
    \/ /\ IsClaimedLog(l)
       /\ Len(l.data) < 2

\* C7: malformed log.  A malformed log of a tracked signature appends no event
\* and modifies no event of the list.
C7_MalformedLogSkipped ==
    (Len(logs) >= 1 /\ IsMalformedPoolLog(LastLog)) =>
        decoded_events = events_before

\* C9: fee invariant.  In every state of a pass exactly one event of the list
\* is SPEND/FEE; it is the first one, has sequence_index 0 and asset ETH and is
\* field for field the event created before the logs were decoded; the output
\* of decode starts with it and holds no other SPEND/FEE event.
C9_FeeInvariant ==
    /\ { i \in 1..Len(decoded_events) : IsFeeEvent(decoded_events[i]) } = {1}
    /\ decoded_events[1].sequence_index = 0
    /\ decoded_events[1].asset = "ETH"
    /\ decoded_events[1].counterparty = "gas"
    /\ decoded_events[1] = FeeEvent(TEST_TRANSACTION)
    /\ pc = "done" =>
        /\ { i \in 1..Len(output) : IsFeeEvent(output[i]) } = {1}
        /\ output[1] = FeeEvent(TEST_TRANSACTION)

C9_Witness ==
    /\ Len(logs) = 3
    /\ IsStakedLog(logs[1]) /\ NamesUser(logs[1], TEST_USER_ADDRESS)
    /\ IsUnstakedLog(logs[2]) /\ NamesUser(logs[2], TEST_USER_ADDRESS)
    /\ IsFullClaimedLog(logs[3]) /\ NamesUser(logs[3], TEST_USER_ADDRESS)
    /\ pc = "done"
    /\ Len(output) = 3
    /\ IsFeeEvent(output[1])

\* the events a Staked log naming `user` is to reclassify
IsStakeCandidate(e, user) ==
    /\ e.asset \in {A_SLP_ILV_ETH, A_ILV}
    /\ e.location_label = user
    /\ e.event_type = "SPEND"

PoolLabel(counterparty) ==
    CASE counterparty = "0x8B4d8443a0229349A9892D4F7CbE89eF5f843F72" -> "ILV/ETH"
      [] counterparty = "0x25121EDDf746c884ddE4619b573A7B10714E2a36" -> "ILV"
      [] OTHER -> "Unknown"

\* C10: stake reclassification.  When a Staked log of a pool is processed,
\* every event of the list with asset SLP-ILV-ETH or ILV, location_label the
\* address of topics[1] and event_type SPEND ends as STAKING/DEPOSIT_ASSET with
\* counterparty illuvium, extra_data {staked_amount: its amount as text,
\* asset: its symbol} and a note that names the pool its previous
\* counterparty maps to; no event is appended.
C10_StakeReclassification ==
    (Len(logs) >= 1 /\ IsStakedLog(LastLog) /\ Len(LastLog.topics) >= 2) =>
        /\ Len(decoded_events) = Len(events_before)
        /\ \A n \in 1..Len(events_before) :
            IsStakeCandidate(events_before[n], Topic(LastLog, 1).addr) =>
                LET old == events_before[n]
                    new == decoded_events[n]
                    text == DecimalStr(old.balance.amount)
                    symbol == IF old.asset = A_ILV THEN "ILV" ELSE "SLP"
                IN  /\ new.event_type = "STAKING"
                    /\ new.event_subtype = "DEPOSIT_ASSET"
                    /\ new.counterparty = "illuvium"
                    /\ new.extra_data = [staked_amount |-> text, asset |-> symbol]
                    /\ new.notes = "Stake " \o text \o " " \o symbol \o " in the "
                                   \o PoolLabel(old.counterparty) \o " pool"

C10_Witness ==
    /\ Len(logs) = 2
    /\ IsStakedLog(LastLog)
    /\ IsStakeCandidate(events_before[2], TEST_USER_ADDRESS)
    /\ decoded_events[2].event_type = "STAKING"
    /\ decoded_events[2].notes = "Stake 1.2E-15 SLP in the ILV/ETH pool"
    /\ decoded_events[2].extra_data = [staked_amount |-> "1.2E-15", asset |-> "SLP"]

\* the events an Unstaked log naming `user` is to reclassify
IsUnstakeCandidate(e, user) ==
    /\ e.asset \in {A_SLP_ILV_ETH, A_ILV}
    /\ e.location_label = user
    /\ e.event_type = "RECEIVE"

\* C11: unstake reclassification.  When an Unstaked log of a pool is
\* processed, every event of the list with asset SLP-ILV-ETH or ILV,
\* location_label the address of topics[1] and event_type RECEIVE ends as
\* STAKING/REMOVE_ASSET with counterparty illuvium, extra_data
\* {unstaked_amount: its amount as text, asset: its symbol} and a note that
\* names the pool its previous counterparty maps to; no event is appended.
C11_UnstakeReclassification ==
    (Len(logs) >= 1 /\ IsUnstakedLog(LastLog) /\ Len(LastLog.topics) >= 2) =>
        /\ Len(decoded_events) = Len(events_before)
        /\ \A n \in 1..Len(events_before) :
            IsUnstakeCandidate(events_before[n], Topic(LastLog, 1).addr) =>
                LET old == events_before[n]
                    new == decoded_events[n]
                    text == DecimalStr(old.balance.amount)
                    symbol == IF old.asset = A_ILV THEN "ILV" ELSE "SLP"
                IN  /\ new.event_type = "STAKING"
                    /\ new.event_subtype = "REMOVE_ASSET"
                    /\ new.counterparty = "illuvium"
                    /\ new.extra_data = [unstaked_amount |-> text, asset |-> symbol]
                    /\ new.notes = "Unstake " \o text \o " " \o symbol \o " from the "
                                   \o PoolLabel(old.counterparty) \o " pool"

C11_Witness ==
    /\ Len(logs) = 2
    /\ IsUnstakedLog(LastLog)
    /\ IsUnstakeCandidate(events_before[2], TEST_USER_ADDRESS)
    /\ events_before[2].asset = A_ILV
    /\ decoded_events[2].event_subtype = "REMOVE_ASSET"
    /\ decoded_events[2].notes = "Unstake 1.2E-15 ILV from the ILV pool"
    /\ decoded_events[2].extra_data = [unstaked_amount |-> "1.2E-15", asset |-> "ILV"]

\* a list in strictly ascending order of sequence_index
IsStrictlyAscending(events) ==
    \A i \in 1..(Len(events) - 1) :
        events[i].sequence_index < events[i + 1].sequence_index

\* the events of `a` are those of `b`, each as often
IsPermutation(a, b) ==
    /\ Len(a) = Len(b)
    /\ \A i \in 1..Len(a) :
        Cardinality({ k \in 1..Len(a) : a[k] = a[i] })
            = Cardinality({ k \in 1..Len(b) : b[k] = a[i] })

C13_CounterpartyStability ==
    (Len(logs) >= 1 /\ LastLog \in PoolLogs(LastLog.log_index)) =>
        \A n \in 1..Len(events_before) :
            events_before[n].counterparty \in {CPT_UNRELATED, CPT_GAS} =>
                decoded_events[n].counterparty = events_before[n].counterparty

\* the receipt of the sILV2 claim: sILV2 minted to the user, then the
\* LogClaim log of the claim contract
IsSilv2ClaimReceipt ==
    /\ Len(logs) = 2
    /\ IsTransferLog(logs[1])
    /\ logs[1].address = "0x7E77dCb127F99ECe88230a64Db8d595F31F1b068"
    /\ TransferFrom(logs[1]) = ZERO_ADDRESS
    /\ TransferTo(logs[1]) = TEST_USER_ADDRESS
    /\ logs[2].address = "0xA904f27b1DE7e82Ba587677eE1f5af0AD0A8c79A"
    /\ Topic(logs[2], 0) = LOG_CLAIM_V2

\* C14: sILV2 migration.  For the receipt of a sILV2 claim, decoding yields
\* exactly one non-fee event, and it is MIGRATE/RECEIVE of asset sILV2 with
\* counterparty illuvium and the sequence index of the transfer event.
C14_Silv2Migration ==
    IsSilv2ClaimReceipt =>
        /\ Cardinality(NonFeeEvents(decoded_events)) = 1
        /\ \A n \in NonFeeEvents(decoded_events) :
            /\ decoded_events[n].event_type = "MIGRATE"
            /\ decoded_events[n].event_subtype = "RECEIVE"
            /\ decoded_events[n].asset = A_SILV_V2
            /\ decoded_events[n].counterparty = "illuvium"
            /\ decoded_events[n].sequence_index = logs[1].log_index + 1

\* the integer an amount stands for at `decimals` places: amount * 10^decimals
ScaledBack(amount, decimals) ==
    IF amount.coef = 0 THEN 0 ELSE amount.coef * Pow10(amount.exp + decimals)

\* C15: scaling exactness.  The amount of the two events a Claimed log appends
\* is the raw integer R of data[32:64] over 10^18, and for every R of
\* 0..MaxRaw and every d of 0..18 the normalized amount R / 10^d, multiplied by
\* 10^d, is R again.
C15_ScalingExactness ==
    /\ scaled.amount # <<>> =>
        /\ scaled.amount[1].exp <= 0
        /\ scaled.amount[1].exp + scaled.decimals >= 0
        /\ ScaledBack(scaled.amount[1], scaled.decimals) = scaled.raw
    /\ logs # <<>> =>
        /\ ClaimRaw(logs[1]) = scaled.raw
        /\ Len(decoded_events) = 3
        /\ \A i \in {2, 3} :
            /\ decoded_events[i].balance.amount.exp + TOKEN_DECIMALS >= 0
            /\ ScaledBack(decoded_events[i].balance.amount, TOKEN_DECIMALS) = scaled.raw

C15_Witness ==
    /\ scaled.raw = 120
    /\ scaled.decimals = 7
    /\ scaled.amount = <<[coef |-> 12, exp |-> -6]>>
    /\ logs # <<>>
    /\ decoded_events[2].balance.amount = [coef |-> 12, exp |-> -17]

\* the fields a reclassification leaves alone
SameIdentity(old, new) ==
    /\ new.event_identifier = old.event_identifier
    /\ new.sequence_index = old.sequence_index
    /\ new.timestamp = old.timestamp
    /\ new.location = old.location
    /\ new.location_label = old.location_label
    /\ new.asset = old.asset
    /\ new.balance = old.balance

\* C16: frame.  Processing a log never removes an event and keeps the events
\* that were in the list at their positions; an existing event changes at
\* most in event_type, event_subtype, counterparty, notes and extra_data,
\* never in event_identifier, sequence_index, timestamp, location,
\* location_label, asset or balance.
C16_ReclassificationFrame ==
    Len(logs) >= 1 =>
        /\ Len(decoded_events) >= Len(events_before)
        /\ \A n \in 1..Len(events_before) :
            SameIdentity(events_before[n], decoded_events[n])

C16_Witness ==
    /\ Len(logs) = 3
    /\ LastIsFullClaim /\ ClaimFlag(LastLog) = 0
    /\ Len(events_before) = 3
    /\ Len(decoded_events) = 5
    /\ events_before[2].asset = A_SILV_V1
    /\ events_before[2].event_subtype = "NONE"
    /\ decoded_events[2].event_subtype = "REWARD"
    /\ events_before[3].event_type = "SPEND"
    /\ decoded_events[3].event_type = "STAKING"

\* the event at position n was given the classification type/subtype by the
\* last log
BecameClassified(n, type, subtype) ==
    /\ decoded_events[n].event_type = type
    /\ decoded_events[n].event_subtype = subtype
    /\ decoded_events[n] # events_before[n]

\* C17: signature-specific reclassification.  An existing event becomes
\* STAKING/DEPOSIT_ASSET only while a log with the staking signature is
\* processed, STAKING/REMOVE_ASSET only with the unstaking signature and
\* RECEIVE/REWARD only with the claim signature, for ILV events as for events
\* of the SLP pool token.
C17_SignatureSpecific ==
    (Len(logs) >= 1 /\ LastLog \in PoolLogs(LastLog.log_index)) =>
        \A n \in 1..Len(events_before) :
            /\ BecameClassified(n, "STAKING", "DEPOSIT_ASSET") =>
                   Topic(LastLog, 0) = ILV_CORE_POOL_V1_STAKING
            /\ BecameClassified(n, "STAKING", "REMOVE_ASSET") =>
                   Topic(LastLog, 0) = ILV_CORE_POOL_V1_UNSTAKING
            /\ BecameClassified(n, "RECEIVE", "REWARD") =>
                   Topic(LastLog, 0) = ILV_CORE_POOL_V1_CLAIM

\* an event as the generic transfer decoding classifies it
IsGenericallyClassified(e) ==
    /\ e.event_type \in {"SPEND", "RECEIVE"}
    /\ e.event_subtype = "NONE"

\* C18: selection criteria.  A Staked, Unstaked or Claimed log changes an
\* existing event only if the event's location_label is the address of the
\* log's topics[1] (or the event is already tagged illuvium) and the event is
\* classified generically as SPEND or RECEIVE; events of another address and
\* events already classified specifically are left unchanged.
C18_SelectionCriteria ==
    (/\ Len(logs) >= 1
     /\ LastLog \in PoolLogs(LastLog.log_index)
     /\ Len(LastLog.topics) >= 2) =>
        \A n \in 1..Len(events_before) :
            decoded_events[n] # events_before[n] =>
                /\ \/ events_before[n].location_label = Topic(LastLog, 1).addr
                   \/ events_before[n].counterparty = "illuvium"
                /\ IsGenericallyClassified(events_before[n])

\* C19: signature gate.  For a log of a pool whose topics[0] is none of the
\* staking, unstaking and claim signatures the decode function returns
\* (None, []) and leaves the events list unchanged: same length, every field
\* of every event unchanged.
C19_SignatureGate ==
    (/\ Len(logs) >= 1
     /\ LastLog.address \in addresses_to_decoders
     /\ Topic(LastLog, 0) \notin {ILV_CORE_POOL_V1_STAKING, ILV_CORE_POOL_V1_UNSTAKING,
                                  ILV_CORE_POOL_V1_CLAIM}) =>
        /\ last_call = "returned"
        /\ Len(decoded_events) = Len(events_before)
        /\ \A n \in 1..Len(events_before) : decoded_events[n] = events_before[n]

C19_Witness ==
    /\ Len(logs) = 3
    /\ IsTransferLog(logs[1]) /\ logs[1].address = TokenContract(A_ILV)
    /\ TransferFrom(logs[1]) = TEST_USER_ADDRESS
    /\ IsTransferLog(logs[2]) /\ logs[2].address = TokenContract(A_SILV_V1)
    /\ LastLog.address = ILV_CORE_POOL_V1
    /\ Topic(LastLog, 0) = LOG_CLAIM_V2
    /\ last_call = "returned"
    /\ Len(decoded_events) = 3
    /\ decoded_events[2].event_type = "SPEND"
    /\ decoded_events[3].event_subtype = "NONE"

\* the two events a Claimed log with flag word 0 appends for `user`
IsSynthesizedClaimEvent(e, user) ==
    /\ e.asset = A_ILV
    /\ e.location_label = user
    /\ e.counterparty = "illuvium"
    /\ \/ e.event_type = "RECEIVE" /\ e.event_subtype = "REWARD"
       \/ e.event_type = "STAKING" /\ e.event_subtype = "DEPOSIT_ASSET"

\* C20: stability of a synthesized claim.  Once a Claimed log with flag word 0
\* has appended its RECEIVE/REWARD and STAKING/DEPOSIT_ASSET events of ILV,
\* each keeps its event_type and event_subtype whatever Staked, Unstaked or
\* Claimed log naming the same user is processed later in the pass.
C20_SynthesizedClaimStable ==
    (/\ Len(logs) >= 2
     /\ LastLog \in PoolLogs(LastLog.log_index)
     /\ Len(LastLog.topics) >= 2) =>
        \A i \in 1..(Len(logs) - 1) :
            (/\ IsFullClaimedLog(logs[i])
             /\ ClaimFlag(logs[i]) = 0
             /\ Topic(logs[i], 1).addr = Topic(LastLog, 1).addr) =>
                \A n \in 1..Len(events_before) :
                    (/\ IsSynthesizedClaimEvent(events_before[n], Topic(LastLog, 1).addr)
                     /\ events_before[n].sequence_index
                            \in {logs[i].log_index + 1, logs[i].log_index + 2}) =>
                        /\ decoded_events[n].event_type = events_before[n].event_type
                        /\ decoded_events[n].event_subtype = events_before[n].event_subtype

\* positions of the events a Staked (Unstaked) log naming `user` matches, and
\* of the events the last log gave a classification
StakeMatches(user) ==
    { n \in 1..Len(events_before) : IsStakeCandidate(events_before[n], user) }
UnstakeMatches(user) ==
    { n \in 1..Len(events_before) : IsUnstakeCandidate(events_before[n], user) }
NewlyClassified(type, subtype) ==
    { n \in 1..Len(events_before) : BecameClassified(n, type, subtype) }

\* C21: every match is reclassified.  One Staked log turns every event it
\* matches (asset SLP or ILV, location_label the log's user, event_type
\* SPEND) into a stake event, and one Unstaked log every event it matches
\* (event_type RECEIVE) into an unstake event: k matching events give k
\* reclassified events, not only the first.
C21_EveryMatchReclassified ==
    (Len(logs) >= 1 /\ Len(LastLog.topics) >= 2) =>
        /\ IsStakedLog(LastLog) =>
            /\ NewlyClassified("STAKING", "DEPOSIT_ASSET")
                   = StakeMatches(Topic(LastLog, 1).addr)
        /\ IsUnstakedLog(LastLog) =>
            /\ NewlyClassified("STAKING", "REMOVE_ASSET")
                   = UnstakeMatches(Topic(LastLog, 1).addr)

C21_Witness ==
    /\ Len(logs) = 3
    /\ IsStakedLog(LastLog)
    /\ StakeMatches(TEST_USER_ADDRESS) = {2, 3}
    /\ events_before[2].asset = A_SLP_ILV_ETH
    /\ events_before[3].asset = A_ILV
    /\ NewlyClassified("STAKING", "DEPOSIT_ASSET") = {2, 3}
    /\ decoded_events[3].notes = "Stake 1.2E-15 ILV in the ILV pool"

\* the flag word as the handler reads it: int(data[0:32])
FlagWordRead(l) == hex_or_bytes_to_int(DataSlice(l, 0))

\* C22: return value and growth.  Every call of the decode function that
\* completes returns (None, []): no event is handed back and no action item
\* registered.  A call changes the length of the events list by 0 or by 2,
\* and by 2 exactly when topics[0] is the claim signature and the flag word
\* is not 1.
C22_ReturnValueAndGrowth ==
    (/\ Len(logs) >= 1
     /\ LastLog \in PoolLogs(LastLog.log_index)
     /\ last_call = "returned") =>
        LET call == decode_illuvium_v1_events(LastLog, TEST_TRANSACTION, events_before)
            growth == Len(decoded_events) - Len(events_before)
        IN  /\ call.ret = <<[event |-> <<>>, action_items |-> <<>>]>>
            /\ growth \in {0, 2}
            /\ growth = 2 <=> /\ Topic(LastLog, 0) = ILV_CORE_POOL_V1_CLAIM
                              /\ FlagWordRead(LastLog) # 1

C22_Witness ==
    /\ Len(logs) = 3
    /\ IsFullClaimedLog(logs[1]) /\ ClaimFlag(logs[1]) = 2
    /\ IsStakedLog(logs[2]) /\ Len(decoded_events) = 3
    /\ IsFullClaimedLog(logs[3]) /\ ClaimFlag(logs[3]) = 1
    /\ last_call = "returned"
    /\ pc = "decoding"
    /\ events_before = decoded_events

\* a log that only correlates: Staked, Unstaked, or Claimed with flag word 1
IsCorrelationOnlyLog(l) ==
    \/ IsStakedLog(l)
    \/ IsUnstakedLog(l)
    \/ IsClaimedLog(l) /\ FlagWordRead(l) = 1

\* the events list after the last log is processed once more
AfterSecondCall ==
    decode_illuvium_v1_events(LastLog, TEST_TRANSACTION, decoded_events).events

\* C23: re-application is idempotent.  Processing the same Staked log,
\* Unstaked log or Claimed log with flag word 1 a second time directly after
\* the first leaves the events list as the first call left it: same length,
\* same field values.
C23_ReapplicationIdempotent ==
    (Len(logs) >= 1 /\ IsCorrelationOnlyLog(LastLog)) =>
        /\ Len(AfterSecondCall) = Len(decoded_events)
        /\ AfterSecondCall = decoded_events

C23_Witness ==
    /\ Len(logs) = 3
    /\ IsFullClaimedLog(LastLog) /\ ClaimFlag(LastLog) = 1
    /\ last_call = "returned"
    /\ Len(events_before) = 3
    /\ events_before[2].asset = A_SILV_V1 /\ events_before[2].event_subtype = "NONE"
    /\ events_before[3].asset = A_ILV /\ events_before[3].event_type = "RECEIVE"
    /\ decoded_events[2].event_subtype = "REWARD"
    /\ decoded_events[3].event_subtype = "REMOVE_ASSET"
    /\ AfterSecondCall = decoded_events

\* values a counterparty takes: the pool addresses, other addresses, protocol
\* tags, and None
NoCounterparty == "None"
CounterpartyValues ==
    {ILV_ETH_CORE_POOL_V1, ILV_CORE_POOL_V1, ZERO_ADDRESS, OTHER_ADDRESS,
     CPT_ILLUVIUM, CPT_GAS, CPT_UNRELATED, NoCounterparty}

\* the event with its note blanked
WithoutNotes(e) == [e EXCEPT !.notes = ""]

\* what a stake or unstake reclassification makes of an event, the note apart
ReclassifiedWithoutNotes(old, subtype, amount_key) ==
    [old EXCEPT
        !.event_type = "STAKING",
        !.event_subtype = subtype,
        !.counterparty = "illuvium",
        !.notes = "",
        !.extra_data = IF amount_key = "staked_amount"
                       THEN [staked_amount |-> DecimalStr(old.balance.amount),
                             asset |-> symbol_or_name(old.asset)]
                       ELSE [unstaked_amount |-> DecimalStr(old.balance.amount),
                             asset |-> symbol_or_name(old.asset)]]

\* C24: pool naming is total.  The mapping gives 'ILV/ETH' for the ILV/ETH
\* core pool address, 'ILV' for the ILV core pool address and 'Unknown' for
\* every other value, None and protocol tags included.  A stake or unstake
\* reclassification of an event whose counterparty is no pool address
\* completes with 'Unknown' in the note, and the label shows in the notes
\* field only: every other field is what it is for an event of a pool.
C24_PoolNamingTotal ==
    /\ \A c \in CounterpartyValues :
        poolname_for_counterparty(c) =
            IF c = "0x8B4d8443a0229349A9892D4F7CbE89eF5f843F72" THEN "ILV/ETH"
            ELSE IF c = "0x25121EDDf746c884ddE4619b573A7B10714E2a36" THEN "ILV"
            ELSE "Unknown"
    /\ (Len(logs) >= 1 /\ Len(LastLog.topics) >= 2) =>
        \A n \in 1..Len(events_before) :
            LET old == events_before[n]
                new == decoded_events[n]
                user == Topic(LastLog, 1).addr
                text == DecimalStr(old.balance.amount) \o " " \o symbol_or_name(old.asset)
                label == IF old.counterparty \in Pools
                         THEN PoolLabel(old.counterparty) ELSE "Unknown"
            IN  /\ (IsStakedLog(LastLog) /\ IsStakeCandidate(old, user)) =>
                    /\ last_call = "returned"
                    /\ new.notes = "Stake " \o text \o " in the " \o label \o " pool"
                    /\ WithoutNotes(new)
                           = ReclassifiedWithoutNotes(old, "DEPOSIT_ASSET", "staked_amount")
                /\ (IsUnstakedLog(LastLog) /\ IsUnstakeCandidate(old, user)) =>
                    /\ last_call = "returned"
                    /\ new.notes = "Unstake " \o text \o " from the " \o label \o " pool"
                    /\ WithoutNotes(new)
                           = ReclassifiedWithoutNotes(old, "REMOVE_ASSET", "unstaked_amount")

C24_Witness ==
    /\ Len(logs) = 3
    /\ IsUnstakedLog(LastLog)
    /\ last_call = "returned"
    /\ Len(events_before) = 3
    /\ events_before[2].counterparty = CPT_UNRELATED
    /\ events_before[2].event_type = "RECEIVE"
    /\ events_before[3].counterparty = ILV_CORE_POOL_V1
    /\ events_before[3].event_type = "RECEIVE"
    /\ decoded_events[2].notes = "Unstake 1.2E-15 ILV from the Unknown pool"
    /\ decoded_events[3].notes = "Unstake 1.2E-15 SLP from the ILV pool"

\* C25: auto-stake target pool.  The STAKING/DEPOSIT_ASSET event a Claimed log
\* with flag word 0 appends names the ILV pool in its note, whichever of the
\* two pool addresses emitted the log.
C25_AutoStakeTargetPool ==
    (LastIsFullClaim /\ ClaimFlag(LastLog) = 0) =>
        LET stake == decoded_events[Len(decoded_events)]
        IN  /\ LastLog.address \in {"0x8B4d8443a0229349A9892D4F7CbE89eF5f843F72",
                                     "0x25121EDDf746c884ddE4619b573A7B10714E2a36"}
            /\ Len(decoded_events) = Len(events_before) + 2
            /\ stake.event_type = "STAKING"
            /\ stake.event_subtype = "DEPOSIT_ASSET"
            /\ stake.notes = "Stake " \o DecimalStr(stake.balance.amount)
                                 \o " ILV in the ILV pool"

C25_Witness ==
    /\ LastIsFullClaim
    /\ ClaimFlag(LastLog) = 0
    /\ LastLog.address = ILV_ETH_CORE_POOL_V1
    /\ decoded_events[Len(decoded_events)].event_subtype = "DEPOSIT_ASSET"
    /\ decoded_events[Len(decoded_events)].notes = "Stake 5E-17 ILV in the ILV pool"

=============================================================================
